---- MODULE Spec2Model ----
(***************************************************************************)
(* agent.py: the weekly trend agent.  main() fetches two RSS feeds, builds *)
(* a prompt, asks the generation API for a report (one retry with a        *)
(* stricter prompt when no JSON can be extracted) and emails the report or *)
(* a debug message.                                                        *)
(*                                                                         *)
(* A Python str is a sequence of one-character strings.  A generated text  *)
(* is a record [head, pad]: the characters of head followed by pad copies  *)
(* of a filler character that is neither a brace nor part of JSON, so that *)
(* texts longer than the 8000-character cut of the debug email exist.      *)
(***************************************************************************)
EXTENDS Integers, Sequences, FiniteSets, TLC

VARIABLES pc, trends_daily, news, fetchLog, built, prompt, genCalls,
          raw, raw2, parsed, parsedFirst, sendCalls, outbox, error

vars == <<pc, trends_daily, news, fetchLog, built, prompt, genCalls,
          raw, raw2, parsed, parsedFirst, sendCalls, outbox, error>>

-----------------------------------------------------------------------------
(* Bounds of the model *)

\* longest head of a text handed to safe_extract_json on its own
MaxLen == 6
\* longest head of a text the generation API returns in a run of main()
MaxRawLen == 2
\* most entries a parsed feed holds
MaxEntries == 1

(* Program constants *)

\* parsed['raw'][:8000]
RawLimit == 8000
\* SL_TZ = UTC+5:30, in minutes
SL_TZ == 330
\* fetch_rss(GOOGLE_TRENDS_DAILY_LK, max_items=40)
TrendsMaxItems == 40
\* fetch_rss(GOOGLE_NEWS_LK, max_items=30)
NewsMaxItems == 30

-----------------------------------------------------------------------------
(* Strings *)

Min(a, b) == IF a <= b THEN a ELSE b

\* all sequences over S of length at most n
SeqsUpTo(S, n) == UNION {[1..k -> S] : k \in 0..n}

\* the characters of the texts given to the extractor: braces, the quote, the
\* colon and a digit
Chars == {"{", "}", "\"", ":", "1"}
\* the characters of the texts the generation API returns in a run: braces and
\* a digit, which stands before or after them as prose does
GenChars == {"{", "}", "1"}
\* how long the filler tail of a text is
Pads == {0, RawLimit}

Text(h, p) == [head |-> h, pad |-> p]
StrLen(t) == Len(t.head) + t.pad

\* str.find(c): the 0-based index of the first c, -1 when there is none
Find(t, c) ==
    IF \E i \in 1..Len(t.head) : t.head[i] = c
    THEN (CHOOSE i \in 1..Len(t.head) :
             t.head[i] = c /\ \A j \in 1..(i - 1) : t.head[j] # c) - 1
    ELSE -1

\* RFind with a slip: the first c instead of the last
RFindFirst(t, c) ==
    IF \E i \in 1..Len(t.head) : t.head[i] = c
    THEN (CHOOSE i \in 1..Len(t.head) :
             t.head[i] = c /\ \A j \in 1..(i - 1) : t.head[j] # c) - 1
    ELSE -1

\* str.rfind(c): the 0-based index of the last c, -1 when there is none
RFind(t, c) ==
    IF \E i \in 1..Len(t.head) : t.head[i] = c
    THEN (CHOOSE i \in 1..Len(t.head) :
             t.head[i] = c /\ \A j \in (i + 1)..Len(t.head) : t.head[j] # c) - 1
    ELSE -1

\* t[a:b] for 0 <= a and b <= len(head): the characters of 0-based index
\* a to b-1, empty when b <= a
Slice(t, a, b) == SubSeq(t.head, a + 1, b)

\* t[:n]
Prefix(t, n) ==
    IF n >= Len(t.head)
    THEN Text(t.head, Min(t.pad, n - Len(t.head)))
    ELSE Text(SubSeq(t.head, 1, n), 0)

\* a + b, where a has no filler tail
Concat(a, b) == Text(a.head \o b.head, b.pad)

-----------------------------------------------------------------------------
(* json.loads, on a sequence of characters over Chars.  A result is        *)
(* [ok |-> TRUE, val, end] or, for a raised JSONDecodeError,               *)
(* [ok |-> FALSE, msg, pos]; indices are 0-based as in the decoder.        *)

JsonOk(v, e) == [ok |-> TRUE, val |-> v, end |-> e]
JsonErr(m, p) == [ok |-> FALSE, msg |-> m, pos |-> p]

\* s[idx:idx+1]: the character of 0-based index idx, "" past the end
CharAt(s, idx) == IF idx + 1 \in 1..Len(s) THEN s[idx + 1] ELSE ""

\* scanstring(s, end): end is the index after the opening quote
scanstring(s, end) ==
    IF \E i \in end..(Len(s) - 1) : CharAt(s, i) = "\""
    THEN LET close == CHOOSE i \in end..(Len(s) - 1) :
                         /\ CharAt(s, i) = "\""
                         /\ \A j \in end..(i - 1) : CharAt(s, j) # "\""
         IN  JsonOk([t |-> "str", s |-> SubSeq(s, end + 1, close)], close + 1)
    ELSE JsonErr("Unterminated string starting at", end - 1)

\* the integer written as k digits 1
RECURSIVE Ones(_)
Ones(k) == IF k = 0 THEN 0 ELSE 10 * Ones(k - 1) + 1

\* match_number(s, idx), s[idx] being a digit: the whole run of digits
match_number(s, idx) ==
    LET stop == CHOOSE e \in (idx + 1)..Len(s) :
                    /\ \A j \in idx..(e - 1) : CharAt(s, j) = "1"
                    /\ CharAt(s, e) # "1"
    IN  JsonOk([t |-> "num", n |-> Ones(stop - idx)], stop)

RECURSIVE scan_once(_, _), JSONObject(_, _)

\* scan_once(string, idx); StopIteration(idx) becomes "Expecting value" at idx
\* in both callers
scan_once(s, idx) ==
    LET nextchar == CharAt(s, idx)
    IN  CASE nextchar = "\"" -> scanstring(s, idx + 1)
          [] nextchar = "{"  -> JSONObject(s, idx + 1)
          [] nextchar = "1"  -> match_number(s, idx)
          [] OTHER           -> JsonErr("Expecting value", idx)

\* JSONObject((s, end)): end is the index after the opening brace
JSONObject(s, end) ==
    LET nextchar == CharAt(s, end)
    IN  IF nextchar # "\""
        THEN IF nextchar = "}"
             THEN JsonOk([t |-> "obj", pairs |-> <<>>], end + 1)
             ELSE JsonErr("Expecting property name enclosed in double quotes", end)
        ELSE LET key == scanstring(s, end + 1)
             IN  IF ~key.ok THEN key
                 ELSE IF CharAt(s, key.end) # ":"
                 THEN JsonErr("Expecting ':' delimiter", key.end)
                 ELSE LET value == scan_once(s, key.end + 1)
                      IN  IF ~value.ok THEN value
                          ELSE IF CharAt(s, value.end) = "}"
                          THEN JsonOk([t |-> "obj",
                                       pairs |-> <<[key |-> key.val.s,
                                                    value |-> value.val]>>],
                                      value.end + 1)
                          ELSE JsonErr("Expecting ',' delimiter", value.end)

\* json.loads(s): one value, then nothing else
json_loads(s) ==
    LET r == scan_once(s, 0)
    IN  IF ~r.ok THEN r
        ELSE IF r.end # Len(s) THEN JsonErr("Extra data", r.end)
        ELSE r

\* str(e) of a JSONDecodeError in a one-line document
ExcStr(e) == <<e.msg, ": line 1 column ", ToString(e.pos + 1),
               " (char ", ToString(e.pos), ")">>

-----------------------------------------------------------------------------
(* safe_extract_json *)

NoJsonDetected == <<"No JSON detected">>
ParseFailed == "JSON parse failed: "

\* safe_extract_json with a slip: a parse failure keeps the span, not the text
safe_extract_json_span(text) ==
    LET start == Find(text, "{")
        end   == RFind(text, "}")
    IN  IF start = -1 \/ end = -1
        THEN [ok |-> FALSE, raw |-> text, error |-> NoJsonDetected]
        ELSE LET r == json_loads(Slice(text, start, end + 1))
             IN  IF r.ok
                 THEN [ok |-> TRUE, report |-> r.val]
                 ELSE [ok |-> FALSE, raw |-> Text(Slice(text, start, end + 1), 0),
                       error |-> <<ParseFailed>> \o ExcStr(r)]

safe_extract_json(text) ==
    LET start == Find(text, "{")
        end   == RFind(text, "}")
    IN  IF start = -1 \/ end = -1
        THEN [ok |-> FALSE, raw |-> text, error |-> NoJsonDetected]
        ELSE LET r == json_loads(Slice(text, start, end + 1))
             IN  IF r.ok
                 THEN [ok |-> TRUE, report |-> r.val]
                 ELSE [ok |-> FALSE, raw |-> text,
                       error |-> <<ParseFailed>> \o ExcStr(r)]

-----------------------------------------------------------------------------
(* fetch_rss *)

\* an attribute of a feed entry: <<>> when the entry lacks it, <<v>> otherwise
\* getattr(e, name, "")
getattr(e, name) == IF e[name] = <<>> THEN "" ELSE e[name][1]

\* the entries a parsed feed can hold: an entry that lacks its publication date
FeedEntries == {[title |-> <<"T">>, link |-> <<"L">>, published |-> <<>>]}

\* what feedparser.parse(url) can do: return a feed, return the entries read
\* before a fault (none, for a fault before the first entry), or raise
FeedOutcomes ==
    [raises : {FALSE}, fault : BOOLEAN, entries : SeqsUpTo(FeedEntries, MaxEntries)]
    \cup {[raises |-> TRUE, fault |-> TRUE, entries |-> <<>>]}

\* the body of fetch_rss once feedparser.parse has returned feed
fetch_rss(feed, max_items) ==
    [i \in 1..Min(Len(feed.entries), max_items) |->
        [title     |-> getattr(feed.entries[i], "title"),
         link      |-> getattr(feed.entries[i], "link"),
         published |-> getattr(feed.entries[i], "published")]]

-----------------------------------------------------------------------------
(* build_prompt *)

\* the instants datetime.now can return, in minutes since the epoch (UTC):
\* 0 and 1109 fall on the same day in SL_TZ, 1110 on the next
Clocks == {0, 1109, 1110}

\* datetime.now(SL_TZ).strftime("%Y-%m-%d"): the calendar day in SL_TZ,
\* written as its number since the epoch
Today(clock) == ToString((clock + SL_TZ) \div (24 * 60))

\* the text of the f-string before {today}, and between {today} and the
\* input signals (persona, brands, rubric and schema, abridged)
PromptIntro == "\nYou are a Sri Lanka trend analyst ... {\n  \"date\": \""
PromptSchema == "\",\n  \"summary\": \"\", ... }\n\nInput signals:\n"

\* json.dumps of the list of feed items
RECURSIVE dumps_items(_)
dumps_items(items) ==
    IF items = <<>> THEN <<>>
    ELSE <<"{\"title\": \"", items[1].title, "\", \"link\": \"", items[1].link,
           "\", \"published\": \"", items[1].published, "\"}">>
         \o (IF Len(items) > 1 THEN <<", ">> ELSE <<>>)
         \o dumps_items(Tail(items))

\* json.dumps(input_blob, ensure_ascii=False)
dumps_blob(today, trends, newsItems) ==
    <<"{\"date\": \"", today, "\", \"google_trends_lk_daily\": [">>
    \o dumps_items(trends)
    \o <<"], \"google_news_lk\": [">>
    \o dumps_items(newsItems)
    \o <<"]}">>

\* build_prompt with a slip: the date is written with its time of day
build_prompt_timed(clock, trends, newsItems) ==
    LET today == ToString(clock + SL_TZ)
    IN  <<PromptIntro, today, PromptSchema>>
        \o dumps_blob(today, trends, newsItems)
        \o <<"\n">>

build_prompt(clock, trends, newsItems) ==
    LET today == Today(clock)
    IN  <<PromptIntro, today, PromptSchema>>
        \o dumps_blob(today, trends, newsItems)
        \o <<"\n">>

-----------------------------------------------------------------------------
(* gemini_generate *)

\* the texts the API returns in a run
GenTexts == {Text(h, p) : h \in SeqsUpTo(GenChars, MaxRawLen), p \in Pads}

\* os.environ["GEMINI_API_KEY"], requests.post, raise_for_status, and the
\* shape of the response body can each raise
GenErrors == {"KeyError GEMINI_API_KEY", "RequestException", "HTTPError",
              "KeyError candidates"}

GenOutcomes ==
    {[raises |-> FALSE, exc |-> "", text |-> t] : t \in GenTexts}
    \cup {[raises |-> TRUE, exc |-> e, text |-> Text(<<>>, 0)] : e \in GenErrors}

StrictPrefix == "Return ONLY JSON. No markdown. No extra text.\n\n"

\* strict_prompt with a slip: the retry repeats the first prompt
strict_prompt_same(p) == p

\* strict_prompt
strict_prompt(p) == <<StrictPrefix>> \o p

-----------------------------------------------------------------------------
(* the emails of main *)

\* json.dumps(report, ensure_ascii=False, indent=2), as characters
RECURSIVE Spaces(_)
Spaces(n) == IF n = 0 THEN <<>> ELSE <<" ">> \o Spaces(n - 1)

RECURSIVE Digits(_)
Digits(n) == IF n < 10 THEN <<ToString(n)>>
             ELSE Digits(n \div 10) \o <<ToString(n % 10)>>

RECURSIVE dumps_indent(_, _)
dumps_indent(v, level) ==
    CASE v.t = "num" -> Digits(v.n)
      [] v.t = "str" -> <<"\"">> \o v.s \o <<"\"">>
      [] v.t = "obj" ->
           IF v.pairs = <<>> THEN <<"{", "}">>
           ELSE <<"{", "\n">> \o Spaces(2 * (level + 1))
                \o <<"\"">> \o v.pairs[1].key \o <<"\"", ":", " ">>
                \o dumps_indent(v.pairs[1].value, level + 1)
                \o <<"\n">> \o Spaces(2 * level) \o <<"}">>

\* report.get(key, default): the value as parsed, whatever its type
DictGet(report, key, default) ==
    IF \E i \in 1..Len(report.pairs) : report.pairs[i].key = key
    THEN LET i == CHOOSE i \in 1..Len(report.pairs) : report.pairs[i].key = key
         IN  report.pairs[i].value
    ELSE default

EmailSubjectKey == <<"e","m","a","i","l","_","s","u","b","j","e","c","t">>
EmailBodyKey == <<"e","m","a","i","l","_","b","o","d","y">>

DebugSubject == Text(<<"Weekly Trend Agent ERROR (JSON parsing failed)">>, 0)
DefaultSubject == Text(<<"Weekly Sri Lanka Trend Report">>, 0)

\* f"Error: {parsed['error']}\n\nRaw output:\n{parsed['raw'][:8000]}"
DebugBodyLead(p) == Text(<<"Error: ">> \o p.error \o <<"\n\nRaw output:\n">>, 0)
\* DebugBody with a slip: the raw text is not cut
DebugBodyUncut(p) == Concat(DebugBodyLead(p), p.raw)
DebugBody(p) == Concat(DebugBodyLead(p), Prefix(p.raw, RawLimit))

DebugEmail(p) == [site |-> "debug", subject |-> DebugSubject, body |-> DebugBody(p)]

ReportEmail(p) ==
    [site    |-> "report",
     subject |-> DictGet(p.report, EmailSubjectKey, DefaultSubject),
     body    |-> DictGet(p.report, EmailBodyKey,
                         Text(dumps_indent(p.report, 0), 0))]

\* send_email: the environment lookups, then connect, starttls and login,
\* sendmail; any of them can raise
SendOutcomes == {"sent", "KeyError SMTP", "connect", "auth", "sendmail"}

-----------------------------------------------------------------------------
(* main *)

Unset == [unset |-> TRUE]
NoError == [stage |-> "none", exc |-> "none"]

Init ==
    /\ pc = "start"
    /\ trends_daily = <<>>
    /\ news = <<>>
    /\ fetchLog = <<>>
    /\ built = <<>>
    /\ prompt = <<>>
    /\ genCalls = <<>>
    /\ raw = Unset
    /\ raw2 = Unset
    /\ parsed = Unset
    /\ parsedFirst = Unset
    /\ sendCalls = <<>>
    /\ outbox = <<>>
    /\ error = NoError

\* an uncaught exception ends the run
Abort(stage, exc) ==
    /\ pc' = "aborted"
    /\ error' = [stage |-> stage, exc |-> exc]

\* one call of fetch_rss, recorded: whether the fetch met a fault, whether the
\* call raised, and the list it returned
Fetched(feed, max_items) ==
    [fault |-> feed.fault, raised |-> feed.raises,
     items |-> IF feed.raises THEN <<>> ELSE fetch_rss(feed, max_items)]

\* trends_daily = fetch_rss(GOOGLE_TRENDS_DAILY_LK, max_items=40)
FetchTrends ==
    /\ pc = "start"
    /\ \E feed \in FeedOutcomes :
         /\ fetchLog' = Append(fetchLog, Fetched(feed, TrendsMaxItems))
         /\ IF feed.raises
            THEN Abort("fetch_rss", "feedparser") /\ UNCHANGED trends_daily
            ELSE /\ trends_daily' = fetch_rss(feed, TrendsMaxItems)
                 /\ pc' = "fetched_trends"
                 /\ UNCHANGED error
    /\ UNCHANGED <<news, built, prompt, genCalls, raw, raw2, parsed,
                   parsedFirst, sendCalls, outbox>>

\* news = fetch_rss(GOOGLE_NEWS_LK, max_items=30)
FetchNews ==
    /\ pc = "fetched_trends"
    /\ \E feed \in FeedOutcomes :
         /\ fetchLog' = Append(fetchLog, Fetched(feed, NewsMaxItems))
         /\ IF feed.raises
            THEN Abort("fetch_rss", "feedparser") /\ UNCHANGED news
            ELSE /\ news' = fetch_rss(feed, NewsMaxItems)
                 /\ pc' = "fetched_news"
                 /\ UNCHANGED error
    /\ UNCHANGED <<trends_daily, built, prompt, genCalls, raw, raw2, parsed,
                   parsedFirst, sendCalls, outbox>>

\* one call of build_prompt, recorded with the instant it read
Build(clock, trends, newsItems) ==
    [clock |-> clock, trends |-> trends, news |-> newsItems,
     text |-> build_prompt(clock, trends, newsItems)]

\* prompt = build_prompt(trends_daily, news)
BuildPrompt ==
    /\ pc = "fetched_news"
    /\ \E clock \in Clocks :
         /\ prompt' = build_prompt(clock, trends_daily, news)
         /\ built' = Append(built, Build(clock, trends_daily, news))
    /\ pc' = "built"
    /\ UNCHANGED <<trends_daily, news, fetchLog, genCalls, raw, raw2, parsed,
                   parsedFirst, sendCalls, outbox, error>>

\* gemini_raise with a slip: main catches the error and goes on to the email
gemini_raise_caught(exc) ==
    /\ pc' = "line161"
    /\ error' = [stage |-> "gemini_generate", exc |-> exc]

\* an exception of gemini_generate is caught nowhere in main
gemini_raise(exc) == Abort("gemini_generate", exc)

\* raw = gemini_generate(prompt); parsed = safe_extract_json(raw)
Attempt1 ==
    /\ pc = "built"
    /\ genCalls' = Append(genCalls, prompt)
    /\ \E out \in GenOutcomes :
         IF out.raises
         THEN gemini_raise(out.exc)
              /\ UNCHANGED <<raw, parsed, parsedFirst>>
         ELSE /\ raw' = out.text
              /\ parsed' = safe_extract_json(out.text)
              /\ parsedFirst' = safe_extract_json(out.text)
              /\ pc' = "line155"
              /\ UNCHANGED error
    /\ UNCHANGED <<trends_daily, news, fetchLog, built, prompt, raw2,
                   sendCalls, outbox>>

\* RetryNeeded with a slip: the retry is made whatever the first extraction gave
RetryAlways(p) == TRUE

\* if not parsed["ok"]: (line 155)
RetryNeeded(p) == ~p.ok

\* the statement after the retry block
AfterRetry == "line161"

\* strict_prompt = ...; raw2 = gemini_generate(strict_prompt);
\* parsed = safe_extract_json(raw2)
Attempt2 ==
    /\ pc = "line155"
    /\ RetryNeeded(parsed)
    /\ genCalls' = Append(genCalls, strict_prompt(prompt))
    /\ \E out \in GenOutcomes :
         IF out.raises
         THEN gemini_raise(out.exc) /\ UNCHANGED <<raw2, parsed>>
         ELSE /\ raw2' = out.text
              /\ parsed' = safe_extract_json(out.text)
              /\ pc' = AfterRetry
              /\ UNCHANGED error
    /\ UNCHANGED <<trends_daily, news, fetchLog, built, prompt, raw,
                   parsedFirst, sendCalls, outbox>>

\* the retry block is skipped
NoRetry ==
    /\ pc = "line155"
    /\ ~RetryNeeded(parsed)
    /\ pc' = "line161"
    /\ UNCHANGED <<trends_daily, news, fetchLog, built, prompt, genCalls, raw,
                   raw2, parsed, parsedFirst, sendCalls, outbox, error>>

\* send_email with a slip: a failed send is tried again
send_email_again(email) ==
    /\ sendCalls' = Append(sendCalls, email)
    /\ \E outcome \in SendOutcomes :
         IF outcome = "sent"
         THEN /\ outbox' = Append(outbox, email)
              /\ pc' = "done"
              /\ UNCHANGED error
         ELSE /\ pc' = "line161"
              /\ error' = [stage |-> "send_email", exc |-> outcome]
              /\ UNCHANGED outbox

\* send_email(subject, body), the last statement of main on either path
send_email(email) ==
    /\ sendCalls' = Append(sendCalls, email)
    /\ \E outcome \in SendOutcomes :
         IF outcome = "sent"
         THEN /\ outbox' = Append(outbox, email)
              /\ pc' = "done"
              /\ UNCHANGED error
         ELSE Abort("send_email", outcome) /\ UNCHANGED outbox

\* if not parsed["ok"]: (line 161) ... send_email(subject, body); return
SendDebug ==
    /\ pc = "line161"
    /\ ~parsed.ok
    /\ send_email(DebugEmail(parsed))
    /\ UNCHANGED <<trends_daily, news, fetchLog, built, prompt, genCalls, raw,
                   raw2, parsed, parsedFirst>>

\* report = parsed["report"]; ...; send_email(subject, body)
SendReport ==
    /\ pc = "line161"
    /\ parsed.ok
    /\ send_email(ReportEmail(parsed))
    /\ UNCHANGED <<trends_daily, news, fetchLog, built, prompt, genCalls, raw,
                   raw2, parsed, parsedFirst>>

Next ==
    \/ FetchTrends
    \/ FetchNews
    \/ BuildPrompt
    \/ Attempt1
    \/ Attempt2
    \/ NoRetry
    \/ SendDebug
    \/ SendReport

Spec == Init /\ [][Next]_vars

\* every call of main returns or raises: no step is postponed for ever
FairSpec == Spec /\ WF_vars(Next)

-----------------------------------------------------------------------------
(* safe_extract_json on its own: any text over Chars, one call *)

ExtractTexts == {Text(h, 0) : h \in SeqsUpTo(Chars, MaxLen)}

InitExtract ==
    /\ pc = "extract_input"
    /\ raw \in ExtractTexts
    /\ parsed = Unset
    /\ trends_daily = <<>> /\ news = <<>> /\ fetchLog = <<>> /\ built = <<>>
    /\ prompt = <<>> /\ genCalls = <<>> /\ raw2 = Unset /\ parsedFirst = Unset
    /\ sendCalls = <<>> /\ outbox = <<>> /\ error = NoError

ExtractCall ==
    /\ pc = "extract_input"
    /\ parsed' = safe_extract_json(raw)
    /\ pc' = "extract_output"
    /\ UNCHANGED <<trends_daily, news, fetchLog, built, prompt, genCalls, raw,
                   raw2, parsedFirst, sendCalls, outbox, error>>

NextExtract == ExtractCall

SpecExtract == InitExtract /\ [][NextExtract]_vars

-----------------------------------------------------------------------------
(* build_prompt on its own: two calls, each on any lists and at any instant *)

\* the lists fetch_rss can return
ItemLists == {fetch_rss(f, MaxEntries) : f \in {g \in FeedOutcomes : ~g.raises}}

InitBuild ==
    /\ pc = "build_input"
    /\ built = <<>>
    /\ trends_daily = <<>> /\ news = <<>> /\ fetchLog = <<>>
    /\ prompt = <<>> /\ genCalls = <<>> /\ raw = Unset /\ raw2 = Unset
    /\ parsed = Unset /\ parsedFirst = Unset
    /\ sendCalls = <<>> /\ outbox = <<>> /\ error = NoError

BuildCall ==
    /\ pc = "build_input"
    /\ \E clock \in Clocks, trends \in ItemLists, newsItems \in ItemLists :
         built' = Append(built, Build(clock, trends, newsItems))
    /\ pc' = IF Len(built) = 1 THEN "build_output" ELSE "build_input"
    /\ UNCHANGED <<trends_daily, news, fetchLog, prompt, genCalls, raw, raw2,
                   parsed, parsedFirst, sendCalls, outbox, error>>

NextBuild == BuildCall

SpecBuild == InitBuild /\ [][NextBuild]_vars

-----------------------------------------------------------------------------
(* Properties of a run of main (Spec) *)

\* the run is past the retry block (line 161 or later)
PastRetry ==
    \/ pc \in {"line161", "done"}
    \/ pc = "aborted" /\ error.stage = "send_email"

\* the run has ended
Terminated == pc \in {"done", "aborted"}

\* a generation call raised
GenerationRaised == error.stage = "gemini_generate"

\* the first extraction has been made and failed
FirstFailed == parsedFirst # Unset /\ ~parsedFirst.ok

\* both extractions have been made and both failed
BothFailed == FirstFailed /\ raw2 # Unset /\ ~parsed.ok

\* C1: at most two generation calls are ever made, and a second one is made
\* only after the extraction of the first call's output failed.
C1_AtMostTwoGenerations ==
    /\ Len(genCalls) <= 2
    /\ Len(genCalls) = 2 => FirstFailed

C1_Witness == pc = "done" /\ Len(genCalls) = 2 /\ parsed.ok

\* C2: when no generation call raises, a first extraction that succeeds means
\* one generation call in all; a first extraction that fails means exactly
\* two, the second with the strict prefix followed by the first call's prompt.
C2_CallsAndStrictPrompt ==
    /\ (parsedFirst # Unset /\ parsedFirst.ok) =>
          /\ Len(genCalls) = 1
          /\ genCalls[1] = prompt
    /\ (PastRetry /\ FirstFailed) =>
          /\ Len(genCalls) = 2
          /\ genCalls[1] = prompt
          /\ genCalls[2] = <<StrictPrefix>> \o genCalls[1]

C2_Witness ==
    /\ pc = "done" /\ FirstFailed /\ parsed.ok
    /\ Len(genCalls) = 2 /\ Len(trends_daily) > 0

\* the debug email of the second extraction: "Error:" and its reason, then
\* the first RawLimit characters of the second raw text
IsDebugEmailOfSecond(email) ==
    LET lead == <<"Error: ">> \o parsed.error \o <<"\n\nRaw output:\n">>
        rest == Text(SubSeq(email.body.head, Len(lead) + 1, Len(email.body.head)),
                     email.body.pad)
        n    == Min(StrLen(raw2), RawLimit)
    IN  /\ email.site = "debug"
        /\ parsed.raw = raw2
        /\ Len(email.body.head) >= Len(lead)
        /\ SubSeq(email.body.head, 1, Len(lead)) = lead
        /\ StrLen(rest) = n
        /\ rest = Prefix(raw2, n)

\* C3 as stated: when both extractions fail, the run ends having sent exactly
\* one email, the debug email of the second extraction, and no report.
C3_Original ==
    (Terminated /\ BothFailed) =>
        /\ Len(outbox) = 1
        /\ IsDebugEmailOfSecond(outbox[1])
        /\ \A i \in 1..Len(sendCalls) : sendCalls[i].site # "report"

\* C3 (amended): when both extractions fail, the run ends having called
\* send_email exactly once, with the debug email of the second extraction; that
\* email is the only one sent when the send succeeds, and none is sent when
\* the send raises.  The report email is never sent.
C3_DebugEmailOnly ==
    (Terminated /\ BothFailed) =>
        /\ Len(sendCalls) = 1
        /\ IsDebugEmailOfSecond(sendCalls[1])
        /\ outbox = IF pc = "done" THEN sendCalls ELSE <<>>

C3_Witness ==
    /\ pc = "done" /\ BothFailed
    /\ raw # raw2
    /\ StrLen(raw2) > RawLimit
    /\ parsedFirst.error # parsed.error

\* C4: once a generation call has raised, on the first attempt or the retry,
\* the run is aborted with that error, no email has been handed to send_email
\* or sent, and no further step is taken.
C4_GenerationFailureAborts ==
    GenerationRaised =>
        /\ pc = "aborted"
        /\ error.exc \in GenErrors
        /\ sendCalls = <<>>
        /\ outbox = <<>>
        /\ ~ENABLED Next

C4_Witness == GenerationRaised /\ Len(genCalls) = 2 /\ error.exc = "HTTPError"

\* C8: send_email is called at most once in a run; when it raises, the run is
\* aborted with that error, nothing was sent and no further step is taken.
C8_OneSendAttempt ==
    /\ Len(sendCalls) <= 1
    /\ Len(outbox) <= Len(sendCalls)
    /\ error.stage = "send_email" =>
          /\ pc = "aborted"
          /\ Len(sendCalls) = 1
          /\ outbox = <<>>
          /\ ~ENABLED Next

C8_Witness ==
    /\ error.stage = "send_email" /\ error.exc = "auth"
    /\ sendCalls[1].site = "report"

\* C7 as stated: a fetch that meets a fault returns an empty list and does not
\* raise, and the run goes on to build the prompt.
C7_FaultGivesEmptyList ==
    \A i \in 1..Len(fetchLog) :
        fetchLog[i].fault =>
            /\ ~fetchLog[i].raised
            /\ fetchLog[i].items = <<>>
            /\ pc # "aborted" \/ error.stage # "fetch_rss"

\* C10 as stated (its safety part): a run that has ended has sent the report,
\* sent the debug email, or was aborted by a generation, configuration or
\* delivery error; when nothing raised, exactly one email was sent, after both
\* fetches and the last generation call.
C10_TerminalStates ==
    Terminated =>
        /\ \/ pc = "done" /\ parsed.ok /\ outbox[1].site = "report"
           \/ pc = "done" /\ ~parsed.ok /\ outbox[1].site = "debug"
           \/ pc = "aborted" /\ error.stage \in {"gemini_generate", "send_email"}
        /\ error = NoError =>
              /\ Len(outbox) = 1
              /\ Len(fetchLog) = 2
              /\ Len(genCalls) \in {1, 2}

\* C10 (its liveness part): every run ends
C10_Terminates == <>Terminated

-----------------------------------------------------------------------------
(* Properties of safe_extract_json (SpecExtract) *)

HasChar(t, c) == \E i \in 1..Len(t.head) : t.head[i] = c
FirstIndex(t, c) == CHOOSE i \in 1..Len(t.head) :
                        t.head[i] = c /\ \A j \in 1..Len(t.head) : t.head[j] = c => i <= j
LastIndex(t, c) == CHOOSE i \in 1..Len(t.head) :
                       t.head[i] = c /\ \A j \in 1..Len(t.head) : t.head[j] = c => j <= i

\* the characters from the first "{" to the last "}" inclusive, none when
\* the last "}" comes first
BraceSpan(t) ==
    LET a == FirstIndex(t, "{")
        b == LastIndex(t, "}")
    IN  [k \in 1..(b - a + 1) |-> t.head[a + k - 1]]

\* q ends with r
EndsWith(q, r) ==
    Len(q) >= Len(r) /\ SubSeq(q, Len(q) - Len(r) + 1, Len(q)) = r

\* C5: without a "{" or without a "}" the result is the failure "No JSON
\* detected"; otherwise the result is that of parsing the span from the first
\* "{" to the last "}": success with the parsed value, or failure whose reason
\* carries the parse exception's message.
C5_FirstLastBraceSpan ==
    pc = "extract_output" =>
        IF ~HasChar(raw, "{") \/ ~HasChar(raw, "}")
        THEN parsed = [ok |-> FALSE, raw |-> raw, error |-> NoJsonDetected]
        ELSE LET r == json_loads(BraceSpan(raw))
             IN  IF r.ok
                 THEN parsed = [ok |-> TRUE, report |-> r.val]
                 ELSE /\ ~parsed.ok
                      /\ EndsWith(parsed.error, ExcStr(r))
                      /\ parsed.error # NoJsonDetected

C5_Witness ==
    /\ pc = "extract_output"
    /\ raw.head = <<"{", "}", "1", "{", "}">>
    /\ ~parsed.ok
    /\ parsed.error[2] = "Extra data"

\* C6: the extractor always returns a result: with ok, a report parsed from a
\* substring of the input text; without ok, the whole input text and a
\* non-empty reason.
C6_ResultInvariant ==
    pc = "extract_output" =>
        /\ "ok" \in DOMAIN parsed
        /\ parsed.ok =>
              /\ DOMAIN parsed = {"ok", "report"}
              /\ \E a \in 1..Len(raw.head), b \in 1..Len(raw.head) :
                    LET r == json_loads(SubSeq(raw.head, a, b))
                    IN  r.ok /\ r.val = parsed.report
        /\ ~parsed.ok =>
              /\ DOMAIN parsed = {"ok", "raw", "error"}
              /\ parsed.raw = raw
              /\ Len(parsed.error) > 0
              /\ parsed.error[1] # ""

C6_Witness ==
    /\ pc = "extract_output"
    /\ raw.head = <<"1", "{", "}", "1">>
    /\ parsed.ok /\ parsed.report.pairs = <<>>

-----------------------------------------------------------------------------
(* Properties of build_prompt (SpecBuild) *)

\* C9: two builds on the same date with the same trends and the same news
\* give the same prompt text, whatever the instant each one read.
C9_PromptDeterministic ==
    \A i \in 1..Len(built), j \in 1..Len(built) :
        (/\ Today(built[i].clock) = Today(built[j].clock)
         /\ built[i].trends = built[j].trends
         /\ built[i].news = built[j].news)
        => built[i].text = built[j].text

C9_Witness ==
    /\ Len(built) = 2
    /\ built[1].clock # built[2].clock
    /\ Today(built[1].clock) = Today(built[2].clock)
    /\ built[1].trends = built[2].trends /\ built[1].trends # <<>>
    /\ built[1].news = built[2].news

====
